---- MODULE Spec2Model ----
(***************************************************************************)
(* Model of the Ingestion & Broadcast Hub (backend/server.py) and of the   *)
(* Collector Agent's polling loop (backend/network_monitor.py).            *)
(*                                                                         *)
(* The Hub is an asyncio program: a coroutine runs atomically between two  *)
(* awaits, and every `await ws.send_json(...)` in broadcast_event is a     *)
(* point where other coroutines (other broadcasts, websocket handlers) may *)
(* run.  connected_clients is a Python set; a set iterator remembers the   *)
(* set's size and its position in the hash table, and next() raises        *)
(* RuntimeError when the size differs from the remembered one.  A          *)
(* subscriber's id stands for the slot its WebSocket object occupies in    *)
(* the table, so iteration visits registered ids in increasing order; any  *)
(* id may attach at any time, hence every attach order is covered.  (The   *)
(* table is not rehashed while fewer than five entries were ever added.)   *)
(***************************************************************************)
EXTENDS Integers, Sequences, FiniteSets, TLC

\* ---- bounds --------------------------------------------------------------
MaxSubs == 2
MaxIngest == 2
MaxCycles == 2
MaxConns == 2
MaxScore == 2

\* ---- inputs --------------------------------------------------------------
\* body kinds of a POST /events request: a JSON object with every Event
\* field, a JSON object lacking a required Event field, a non-object body
BodyKinds == {"full", "partial", "nondict"}

\* how a requests.post can end: a response (of any status), or one of the
\* transport failures
Outcomes == {"response", "timeout", "refused", "dns"}

VARIABLES
    connected_clients, \* the subscriber registry (server.py:28)
    hstate,            \* position of websocket_endpoint for each subscriber
    chan,              \* state of each subscriber's channel
    stalled,           \* the peer has stopped draining its channel
    sendq,             \* per subscriber: broadcasts suspended in send_json, oldest first
    delivered,         \* per subscriber: messages received, in order
    phase,             \* per ingest call: position of receive_event/broadcast_event
    body,              \* per ingest call: the request body
    source,            \* per ingest call: who sent it
    pos,               \* per broadcast: set iterator position (last yielded slot)
    used,              \* per broadcast: set size remembered by the iterator
    remove_list,       \* per broadcast: remove_list (server.py:32)
    att,               \* per broadcast: the sends attempted, each with the state
                       \* of the subscriber's handler at that moment
    reg0,              \* per broadcast: the registry when it began
    ovl,               \* per ingest call: a broadcast was in progress when it began
    em_pc,             \* polling loop position
    report_count,      \* network_monitor.py:80
    em_conns,          \* len(connections) of the current cycle
    em_idx,            \* index of the connection the for loop is at
    em_posts,          \* POST requests send_event has made in the current cycle
    em_wait,           \* ingest call the pending requests.post waits for (0: none)
    em_last,           \* how the latest requests.post ended
    em_stop,           \* why the polling loop ended
    model,             \* the loaded isolation forest (server.py:64)
    scaler,            \* the loaded scaler (server.py:65)
    sc_calls,          \* calls of scaler.transform made so far
    sc_req,            \* body of the latest POST /score request
    sc_resp,           \* what the latest POST /score request ended in
    en_pc,             \* position of one enumeration (network_monitor.py:83-84)
    en_procs,          \* the process table psutil.process_iter yields
    pid_map,           \* pid_map (network_monitor.py:83)
    en_table,          \* the connection table psutil.net_connections yielded
    connections        \* connections (network_monitor.py:84)

hubVars == <<connected_clients, hstate, chan, stalled, sendq, delivered, phase,
             body, source, pos, used, remove_list, att, reg0, ovl>>
emVars == <<em_pc, report_count, em_conns, em_idx, em_posts, em_wait, em_last,
            em_stop>>
scoreVars == <<model, scaler, sc_calls, sc_req, sc_resp>>
enumVars == <<en_pc, en_procs, pid_map, en_table, connections>>
vars == <<connected_clients, hstate, chan, stalled, sendq, delivered, phase,
          body, source, pos, used, remove_list, att, reg0, ovl, em_pc,
          report_count, em_conns, em_idx, em_posts, em_wait, em_last, em_stop,
          model, scaler, sc_calls, sc_req, sc_resp, en_pc, en_procs, pid_map,
          en_table, connections>>

\* ---- helpers -------------------------------------------------------------
\* the subscribers and the ingest calls of a run are those its initial state
\* provides
Subs == DOMAIN hstate
Tasks == DOMAIN phase

Min(S) == CHOOSE x \in S : \A y \in S : x <= y

Finished(t) == phase[t] \in {"ok", "error", "rejected"}

\* the subscribers broadcast t attempted a send to
Attempted(t) == {a.sub : a \in att[t]}

FreeTasks == {t \in Tasks : phase[t] = "idle"}

\* ingest calls are numbered in the order they reach the Hub
NextTask == Min(FreeTasks)

\* a Hub that scores the event before pushing it
Message_Rescored(t) == [type |-> "event", payload |-> [ev |-> t, body |-> "rescored"]]

\* the message pushed to a subscriber (server.py:35)
Message(t) == [type |-> "event", payload |-> [ev |-> t, body |-> body[t]]]

\* FastAPI's check of `payload: dict` (server.py:87): any JSON object passes
Validates(k) == k \in {"full", "partial"}

\* set.remove of an absent element raises KeyError (server.py:54)
RemoveRaises(reg, s) == s \notin reg

\* the exceptions websocket_endpoint catches around receive_text (server.py:53)
HandlerCatches(exc) == exc = "WebSocketDisconnect"

\* a handler that forgets the removal
HandlerRemove_Forgotten(reg, s) == reg

\* what the handler does to the registry on a caught disconnect (server.py:54)
HandlerRemove(reg, s) == reg \ {s}

\* what broadcast_event does to the registry after its loop (server.py:40-41)
Discard(reg, rl) == reg \ rl

\* next() of the set iterator: "error" when the set changed size, else the
\* next occupied slot after position p, or 0 when the table is exhausted
IterNext(reg, p, u) ==
    IF Cardinality(reg) # u THEN [raise |-> TRUE, yield |-> 0]
    ELSE IF \E s \in reg : s > p
         THEN [raise |-> FALSE, yield |-> Min({s \in reg : s > p})]
         ELSE [raise |-> FALSE, yield |-> 0]

\* One turn of the for loop of broadcast_event for broadcast t, from iterator
\* position p and remembered size u with remove list rl: next() and then
\* either the start of the next send, the RuntimeError leaving receive_event,
\* or the removal loop and the acknowledgment.  q is sendq after the caller's own change.  The
\* iterator is dropped (pos, used back to 0) when broadcast_event is left.
Advance(t, p, u, rl, q) ==
    LET n == IterNext(connected_clients, p, u) IN
    /\ remove_list' = [remove_list EXCEPT ![t] = rl]
    /\ used' = [used EXCEPT ![t] = IF n.raise \/ n.yield = 0 THEN 0 ELSE u]
    /\ IF n.raise
       THEN /\ phase' = [phase EXCEPT ![t] = "error"]
            /\ connected_clients' = connected_clients
            /\ pos' = [pos EXCEPT ![t] = 0]
            /\ att' = att
            /\ sendq' = q
       ELSE IF n.yield # 0
       THEN /\ phase' = [phase EXCEPT ![t] = "sending"]
            /\ connected_clients' = connected_clients
            /\ pos' = [pos EXCEPT ![t] = n.yield]
            /\ att' = [att EXCEPT ![t] =
                          @ \cup {[sub |-> n.yield, handler |-> hstate[n.yield]]}]
            /\ sendq' = [q EXCEPT ![n.yield] = Append(@, t)]
       ELSE /\ phase' = [phase EXCEPT ![t] = "ok"]
            /\ connected_clients' = Discard(connected_clients, rl)
            /\ pos' = [pos EXCEPT ![t] = 0]
            /\ att' = att
            /\ sendq' = q

\* receive_event (server.py:86-92) up to its first suspension: the body is
\* validated, broadcast_event creates remove_list and the iterator and runs
\* to its first send (or to the end when the registry is empty)
BeginIngest(t, k, src) ==
    /\ body' = [body EXCEPT ![t] = k]
    /\ source' = [source EXCEPT ![t] = src]
    /\ reg0' = [reg0 EXCEPT ![t] = connected_clients]
    /\ ovl' = [ovl EXCEPT ![t] = \E u \in Tasks : phase[u] = "sending"]
    /\ IF Validates(k)
       THEN Advance(t, 0, Cardinality(connected_clients), {}, sendq)
       ELSE /\ phase' = [phase EXCEPT ![t] = "rejected"]
            /\ UNCHANGED <<connected_clients, pos, used, att, sendq, remove_list>>
    /\ UNCHANGED <<hstate, chan, stalled, delivered>>

\* ---- Hub actions ---------------------------------------------------------

\* websocket_endpoint, lines 46-48: accept, add to the registry
Attach(s) ==
    /\ hstate[s] = "none"
    /\ hstate' = [hstate EXCEPT ![s] = "listening"]
    /\ chan' = [chan EXCEPT ![s] = "open"]
    /\ connected_clients' = connected_clients \cup {s}
    /\ UNCHANGED <<stalled, sendq, delivered, phase, body, source, pos, used,
                   remove_list, att, reg0, ovl>>
    /\ UNCHANGED emVars
    /\ UNCHANGED <<scoreVars, enumVars>>

\* the peer closes its channel (explicit detach signal or connection loss)
PeerClose(s) ==
    /\ chan[s] = "open"
    /\ chan' = [chan EXCEPT ![s] = "closed"]
    /\ UNCHANGED <<connected_clients, hstate, stalled, sendq, delivered, phase,
                   body, source, pos, used, remove_list, att, reg0, ovl>>
    /\ UNCHANGED emVars
    /\ UNCHANGED <<scoreVars, enumVars>>

\* the peer stops reading: sends to it no longer complete
Stall(s) ==
    /\ chan[s] = "open"
    /\ ~stalled[s]
    /\ stalled' = [stalled EXCEPT ![s] = TRUE]
    /\ UNCHANGED <<connected_clients, hstate, chan, sendq, delivered, phase,
                   body, source, pos, used, remove_list, att, reg0, ovl>>
    /\ UNCHANGED emVars
    /\ UNCHANGED <<scoreVars, enumVars>>

\* websocket_endpoint, lines 50-55: receive_text raises exc.  A closed channel
\* raises WebSocketDisconnect; a frame receive_text cannot return (a binary
\* frame) raises another exception while the channel is open, and the server
\* then closes the channel.
HandlerRaise(s, exc) ==
    /\ hstate[s] = "listening"
    /\ \/ exc = "WebSocketDisconnect" /\ chan[s] = "closed"
       \/ exc = "KeyError" /\ chan[s] = "open"
    /\ chan' = [chan EXCEPT ![s] = "closed"]
    /\ IF HandlerCatches(exc)
       THEN IF RemoveRaises(connected_clients, s)
            THEN /\ hstate' = [hstate EXCEPT ![s] = "crashed"]
                 /\ connected_clients' = connected_clients
            ELSE /\ hstate' = [hstate EXCEPT ![s] = "done"]
                 /\ connected_clients' = HandlerRemove(connected_clients, s)
       ELSE /\ hstate' = [hstate EXCEPT ![s] = "crashed"]
            /\ connected_clients' = connected_clients
    /\ UNCHANGED <<stalled, sendq, delivered, phase, body, source, pos, used,
                   remove_list, att, reg0, ovl>>
    /\ UNCHANGED emVars
    /\ UNCHANGED <<scoreVars, enumVars>>

\* POST /events from a caller other than the Collector Agent
Ingest(k) ==
    /\ FreeTasks # {}
    /\ BeginIngest(NextTask, k, "other")
    /\ UNCHANGED emVars
    /\ UNCHANGED <<scoreVars, enumVars>>

\* broadcast_event, lines 33-41: the pending send_json of broadcast t returns
\* or raises, and the loop runs on to the next suspension or to the end
SendComplete(t) ==
    /\ phase[t] = "sending"
    /\ LET s == pos[t]
           failed == chan[s] # "open"
       IN /\ Head(sendq[s]) = t
          /\ failed \/ ~stalled[s]
          /\ delivered' = [delivered EXCEPT ![s] =
                              IF failed THEN @ ELSE Append(@, Message(t))]
          /\ Advance(t, s, used[t],
                     IF failed THEN remove_list[t] \cup {s} ELSE remove_list[t],
                     [sendq EXCEPT ![s] = Tail(@)])
    /\ UNCHANGED <<hstate, chan, stalled, body, source, reg0, ovl>>
    /\ UNCHANGED emVars
    /\ UNCHANGED <<scoreVars, enumVars>>

\* ---- Collector Agent -----------------------------------------------------

\* a send_event that lets a timeout through
send_event_Uncaught(o) == [raises |-> o = "timeout", posts |-> 1]

\* send_event (network_monitor.py:65-69) for a request ending in outcome o:
\* whether it raises, and how many POST requests it made
send_event(o) == [raises |-> FALSE, posts |-> 1]

\* the polling loop after send_event returned or raised (lines 92-117)
AfterSend(o) ==
    LET r == send_event(o) IN
    /\ em_last' = o
    /\ em_posts' = em_posts + r.posts
    /\ em_wait' = 0
    /\ IF r.raises
       THEN /\ em_pc' = "stopped"
            /\ em_stop' = "send_event"
            /\ em_idx' = em_idx
       ELSE /\ em_pc' = IF em_idx + 1 > em_conns THEN "sleep" ELSE "send"
            /\ em_stop' = em_stop
            /\ em_idx' = em_idx + 1
    /\ UNCHANGED <<report_count, em_conns>>

\* lines 83-91: the enumeration of a cycle retains n connections
EmEnumerate(n) ==
    /\ em_pc = "enumerate"
    /\ report_count < MaxCycles
    /\ em_conns' = n
    /\ em_idx' = 1
    /\ em_posts' = 0
    /\ em_pc' = IF n = 0 THEN "sleep" ELSE "send"
    /\ UNCHANGED <<report_count, em_wait, em_last, em_stop>>
    /\ UNCHANGED hubVars
    /\ UNCHANGED <<scoreVars, enumVars>>

\* a loop that notes the exception and goes on with the next cycle
EmAbort_Swallowed(exc) ==
    /\ \/ exc = "KeyboardInterrupt" /\ em_pc # "stopped"
       \/ exc = "Exception" /\ em_pc \in {"enumerate", "send"}
    /\ em_pc' = "enumerate"
    /\ em_stop' = exc
    /\ em_wait' = 0
    /\ UNCHANGED <<report_count, em_conns, em_idx, em_posts, em_last>>
    /\ UNCHANGED hubVars
    /\ UNCHANGED <<scoreVars, enumVars>>

\* lines 112-117: KeyboardInterrupt anywhere in the loop, or an unexpected
\* exception during enumeration or event construction
EmAbort(exc) ==
    /\ \/ exc = "KeyboardInterrupt" /\ em_pc # "stopped"
       \/ exc = "Exception" /\ em_pc \in {"enumerate", "send"}
    /\ em_pc' = "stopped"
    /\ em_stop' = exc
    /\ em_wait' = 0
    /\ UNCHANGED <<report_count, em_conns, em_idx, em_posts, em_last>>
    /\ UNCHANGED hubVars
    /\ UNCHANGED <<scoreVars, enumVars>>

\* lines 92-107: the loop body for the connection at em_idx; the request does
\* not reach the Hub and requests.post ends in transport failure o
EmPostFail(o) ==
    /\ em_pc = "send"
    /\ o \in Outcomes \ {"response"}
    /\ AfterSend(o)
    /\ UNCHANGED hubVars
    /\ UNCHANGED <<scoreVars, enumVars>>

\* lines 92-107: the loop body for the connection at em_idx; the request
\* reaches the Hub, which runs receive_event to its first suspension
EmPost ==
    /\ em_pc = "send"
    /\ FreeTasks # {}
    /\ LET t == NextTask IN
       /\ BeginIngest(t, "full", "emitter")
       /\ IF phase'[t] = "sending"
          THEN /\ em_pc' = "wait"
               /\ em_wait' = t
               /\ UNCHANGED <<report_count, em_conns, em_idx, em_posts, em_last,
                              em_stop>>
          ELSE AfterSend("response")
    /\ UNCHANGED <<scoreVars, enumVars>>

\* requests.post returns the Hub's response once receive_event has returned,
\* or the read timeout (REQUEST_TIMEOUT) expires first
EmResolve(o) ==
    /\ em_pc = "wait"
    /\ \/ o = "response" /\ Finished(em_wait)
       \/ o = "timeout"
    /\ AfterSend(o)
    /\ UNCHANGED hubVars
    /\ UNCHANGED <<scoreVars, enumVars>>

\* lines 109-110: sleep, report_count += 1
EmSleep ==
    /\ em_pc = "sleep"
    /\ em_pc' = "enumerate"
    /\ report_count' = report_count + 1
    /\ UNCHANGED <<em_conns, em_idx, em_posts, em_wait, em_last, em_stop>>
    /\ UNCHANGED hubVars
    /\ UNCHANGED <<scoreVars, enumVars>>

\* ---- scoring endpoint ----------------------------------------------------

\* the keys score reads from the request body (server.py:74-76)
Features == {"connection_duration", "packet_size", "port_number"}

\* values a feature of a request takes
FeatureValues == {0, 1}

\* bodies of POST /score: JSON objects holding any subset of the features
ScoreRequests == UNION {[D -> FeatureValues] : D \in SUBSET Features}

\* dict.get(key, default)
Get(d, key, default) == IF key \in DOMAIN d THEN d[key] ELSE default

\* the row handed to scaler.transform (server.py:74-76); the defaults 0.0,
\* 0.0 and 0 are the number 0
FeatureRow(payload) == [f \in Features |-> Get(payload, f, 0)]

\* what model.predict can return for a row
Predictions == {-1, 1}

\* server.py:79
Label(prediction) == IF prediction = -1 THEN "Anomaly" ELSE "Normal"

\* score (server.py:71-80) for a request body, the fitted forest predicting
\* p for the scaled row: the row is scaled and scored whichever features the
\* body holds, and the response carries score and label
Score(payload, p) ==
    /\ sc_calls < MaxScore
    /\ sc_req' = payload
    /\ sc_calls' = sc_calls + 1
    /\ sc_resp' = [status |-> "scored", row |-> FeatureRow(payload),
                   label |-> Label(p)]
    /\ UNCHANGED <<model, scaler>>
    /\ UNCHANGED <<hubVars, emVars, enumVars>>

InitScore ==
    /\ model = "models/iforest.joblib"
    /\ scaler = "models/scaler.joblib"
    /\ sc_calls = 0
    /\ sc_req = <<>>
    /\ sc_resp = [status |-> "none", row |-> <<>>, label |-> "none"]

\* ---- enumerator ----------------------------------------------------------

\* Python truthiness of a pid, a path or a name ("0" is the pid 0)
Truthy(v) == v \notin {"None", "", "0"}

\* a or b
Or(a, b) == IF Truthy(a) THEN a ELSE b

\* pids of running processes, and what proc.info holds for a process: exe is
\* None when the executable is not accessible, the name may be empty
RunPids == {"0", "1"}
ProcInfos == [exe : {"None", "/usr/bin/app"}, name : {"", "app"}]

\* process tables: any set of running processes, one entry per pid
ProcTables == UNION {[D -> ProcInfos] : D \in SUBSET RunPids}

\* get_process_path_map (network_monitor.py:17-27)
get_process_path_map(procs) ==
    LET exe_path(pid) == Or(procs[pid].exe, procs[pid].name)
        kept == {pid \in DOMAIN procs : Truthy(pid) /\ Truthy(exe_path(pid))}
    IN [pid \in kept |-> exe_path(pid)]

\* connections psutil.net_connections(kind='tcp') can yield: laddr and raddr
\* are (ip, port) or the empty tuple, pid may be None
ConnStatuses == {"ESTABLISHED", "LISTEN", "TIME_WAIT"}
Addrs == {<<>>, <<"10.0.0.2", "443">>}
Conns == [status : ConnStatuses, laddr : Addrs, raddr : Addrs,
          pid : {"None", "0", "1"}]

\* connection tables of at most MaxConns rows
ConnTables == UNION {[1..n -> Conns] : n \in 0..MaxConns}

\* f"{addr.ip}:{addr.port}" if addr else "N/A" (lines 34, 38)
FormatAddr(addr) == IF addr # <<>> THEN addr[1] \o ":" \o addr[2] ELSE "N/A"

\* a filter that lets every ESTABLISHED connection through
Keeps_AnyEstablished(conn) == conn.status \in {"ESTABLISHED", "LISTEN"}

\* lines 33-36: whether a connection is retained
Keeps(conn) ==
    /\ conn.status = "ESTABLISHED" \/ conn.status = "LISTEN"
    /\ ~(conn.status = "ESTABLISHED" /\ FormatAddr(conn.raddr) = "N/A")

\* a row whose path is looked up without the fallback
Row_NoFallback(conn, pm) ==
    [pid |-> IF Truthy(conn.pid) THEN conn.pid ELSE "N/A",
     status |-> conn.status,
     local_addr |-> FormatAddr(conn.laddr),
     remote_addr |-> FormatAddr(conn.raddr),
     process_path |-> Get(pm, conn.pid, "None")]

\* lines 37-45: the dictionary appended for a retained connection
Row(conn, pm) ==
    [pid |-> IF Truthy(conn.pid) THEN conn.pid ELSE "N/A",
     status |-> conn.status,
     local_addr |-> FormatAddr(conn.laddr),
     remote_addr |-> FormatAddr(conn.raddr),
     process_path |-> Get(pm, conn.pid, "Unknown/System Process")]

\* list_active_tcp_connections (network_monitor.py:30-46)
list_active_tcp_connections(pm, table) ==
    LET kept == SelectSeq(table, Keeps)
    IN [i \in 1..Len(kept) |-> Row(kept[i], pm)]

\* line 83 of a cycle
EnMap ==
    /\ en_pc = "map"
    /\ pid_map' = get_process_path_map(en_procs)
    /\ en_pc' = "list"
    /\ UNCHANGED <<en_procs, en_table, connections>>
    /\ UNCHANGED <<hubVars, emVars, scoreVars>>

\* line 84 of a cycle, over whatever connection table the system has
EnList ==
    /\ en_pc = "list"
    /\ \E table \in ConnTables :
          /\ en_table' = table
          /\ connections' = list_active_tcp_connections(pid_map, table)
    /\ en_pc' = "done"
    /\ UNCHANGED <<en_procs, pid_map>>
    /\ UNCHANGED <<hubVars, emVars, scoreVars>>

\* one enumeration over a process table drawn from tables
InitEnum(tables) ==
    /\ en_pc = "map"
    /\ en_procs \in tables
    /\ pid_map = <<>>
    /\ en_table = <<>>
    /\ connections = <<>>

\* ---- specification -------------------------------------------------------
\* the Hub after start-up, for nSubs subscribers-to-be and nCalls ingest calls
InitHub(nSubs, nCalls) ==
    /\ connected_clients = {}
    /\ hstate = [s \in 1..nSubs |-> "none"]
    /\ chan = [s \in 1..nSubs |-> "new"]
    /\ stalled = [s \in 1..nSubs |-> FALSE]
    /\ sendq = [s \in 1..nSubs |-> <<>>]
    /\ delivered = [s \in 1..nSubs |-> <<>>]
    /\ phase = [t \in 1..nCalls |-> "idle"]
    /\ body = [t \in 1..nCalls |-> "full"]
    /\ source = [t \in 1..nCalls |-> "other"]
    /\ pos = [t \in 1..nCalls |-> 0]
    /\ used = [t \in 1..nCalls |-> 0]
    /\ remove_list = [t \in 1..nCalls |-> {}]
    /\ att = [t \in 1..nCalls |-> {}]
    /\ reg0 = [t \in 1..nCalls |-> {}]
    /\ ovl = [t \in 1..nCalls |-> FALSE]

InitEm ==
    /\ em_pc = "enumerate"
    /\ report_count = 0
    /\ em_conns = 0
    /\ em_idx = 0
    /\ em_posts = 0
    /\ em_wait = 0
    /\ em_last = "none"
    /\ em_stop = "none"

\* scoring and enumeration at rest
InitRest == InitScore /\ InitEnum({<<>>})

Init == InitHub(MaxSubs, MaxIngest) /\ InitEm /\ InitRest

\* The Hub's fan-out: subscribers attach and detach, well-formed events are
\* ingested.  (What the Hub does with other bodies, and with a handler ended
\* by another exception, is in SpecPayload.  A handler ended that way leaves
\* the registry and the channel as a closed channel whose handler has not
\* run yet does, and a rejected body leaves the Hub as it was.)
Next ==
    \/ \E s \in Subs : Attach(s)
    \/ \E s \in Subs : PeerClose(s)
    \/ \E s \in Subs : HandlerRaise(s, "WebSocketDisconnect")
    \/ Ingest("full")
    \/ \E t \in Tasks : SendComplete(t)

Spec == Init /\ [][Next]_vars

\* The Hub with one subscriber, every kind of body and every exception of
\* receive_text.
InitPayload == InitHub(1, MaxIngest) /\ InitEm /\ InitRest

NextPayload ==
    \/ \E s \in Subs : Attach(s)
    \/ \E s \in Subs : PeerClose(s)
    \/ \E s \in Subs : \E exc \in {"WebSocketDisconnect", "KeyError"} : HandlerRaise(s, exc)
    \/ \E k \in BodyKinds : Ingest(k)
    \/ \E t \in Tasks : SendComplete(t)

SpecPayload == InitPayload /\ [][NextPayload]_vars

\* The Hub with subscribers that may stop draining, under the fairness asyncio
\* gives: a coroutine whose await can return is resumed.
NextStall ==
    \/ \E s \in Subs : Attach(s)
    \/ \E s \in Subs : PeerClose(s)
    \/ \E s \in Subs : Stall(s)
    \/ \E s \in Subs : HandlerRaise(s, "WebSocketDisconnect")
    \/ Ingest("full")
    \/ \E t \in Tasks : SendComplete(t)

FairSpec ==
    /\ Init
    /\ [][NextStall]_vars
    /\ \A t \in 1..MaxIngest : WF_vars(SendComplete(t))
    /\ \A s \in 1..MaxSubs : WF_vars(HandlerRaise(s, "WebSocketDisconnect"))

\* The Collector Agent posting to a Hub with one subscriber.
InitEmitter == InitHub(1, MaxIngest) /\ InitEm /\ InitRest

NextEmitter ==
    \/ \E n \in 0..MaxConns : EmEnumerate(n)
    \/ \E exc \in {"KeyboardInterrupt", "Exception"} : EmAbort(exc)
    \/ \E o \in Outcomes : EmPostFail(o)
    \/ EmPost
    \/ \E o \in {"response", "timeout"} : EmResolve(o)
    \/ EmSleep
    \/ \E s \in Subs : Attach(s)
    \/ \E s \in Subs : PeerClose(s)
    \/ \E s \in Subs : HandlerRaise(s, "WebSocketDisconnect")
    \/ \E t \in Tasks : SendComplete(t)

SpecEmitter == InitEmitter /\ [][NextEmitter]_vars

\* The Collector Agent posting to a Hub whose subscribers come and go.
InitOrder == InitHub(MaxSubs + 1, MaxIngest) /\ InitEm /\ InitRest

NextOrder ==
    \/ \E n \in 1..MaxConns : EmEnumerate(n)
    \/ EmPost
    \/ \E o \in {"response", "timeout"} : EmResolve(o)
    \/ EmSleep
    \/ \E s \in Subs : Attach(s)
    \/ \E s \in Subs : PeerClose(s)
    \/ \E s \in Subs : HandlerRaise(s, "WebSocketDisconnect")
    \/ \E t \in Tasks : SendComplete(t)

SpecOrder == InitOrder /\ [][NextOrder]_vars

\* The scoring endpoint, for every request body.
InitScoring == InitHub(1, MaxIngest) /\ InitEm /\ InitRest

NextScoring ==
    \E payload \in ScoreRequests : \E p \in Predictions : Score(payload, p)

SpecScoring == InitScoring /\ [][NextScoring]_vars

\* The Hub with one subscriber beside the scoring endpoint, which is sent
\* requests holding every feature.
InitForward == InitHub(1, MaxIngest) /\ InitEm /\ InitRest

NextForward ==
    \/ \E payload \in [Features -> FeatureValues] : \E p \in Predictions :
          Score(payload, p)
    \/ \E s \in Subs : Attach(s)
    \/ \E s \in Subs : PeerClose(s)
    \/ \E s \in Subs : HandlerRaise(s, "WebSocketDisconnect")
    \/ \E k \in BodyKinds : Ingest(k)
    \/ \E t \in Tasks : SendComplete(t)

SpecForward == InitForward /\ [][NextForward]_vars

\* One enumeration of the Collector Agent, over every process table and
\* connection table.
InitEnumeration == InitHub(1, MaxIngest) /\ InitEm /\ InitScore /\ InitEnum(ProcTables)

NextEnumeration ==
    \/ EnMap
    \/ EnList

SpecEnumeration == InitEnumeration /\ [][NextEnumeration]_vars

\* ---- claims --------------------------------------------------------------

\* the events a subscriber received, in order
Received(s) == [i \in 1..Len(delivered[s]) |-> delivered[s][i].payload.ev]

\* C1: an ingest call that returned made one delivery attempt to each of the
\* subscribers registered when it began and to no one else, and every
\* subscriber whose send failed in it is absent from the registry.
C1_FanOut ==
    \A t \in Tasks :
        phase[t] \in {"ok", "error"} =>
            /\ Attempted(t) = reg0[t]
            /\ remove_list[t] \cap connected_clients = {}

\* since ingest call t began no subscriber attached and no handler ended: all
\* that happened to subscribers is that channels closed and sends failed
Quiet(t) ==
    \A s \in Subs : hstate[s] = IF s \in reg0[t] THEN "listening" ELSE "none"

\* C2: an ingest call handed to the broadcast step returns the success
\* acknowledgment whichever subscribers' sends fail; it never ends in an
\* error response.
C2_IngestAcked ==
    \A t \in Tasks : Quiet(t) => phase[t] # "error"

\* C3: the registry is not mutated while a broadcast is suspended in the
\* middle of its iteration, and no broadcast's iteration is aborted.
C3_RegistrySynchronized ==
    [][\A t \in Tasks :
          /\ (phase[t] = "sending" /\ phase'[t] = "sending" /\ pos'[t] = pos[t])
                => connected_clients' = connected_clients
          /\ phase'[t] # "error"]_vars

\* C4: an ingest call that began while another one's broadcast was in
\* progress is acknowledged, and its event got a delivery attempt to every
\* subscriber registered from its beginning on, also when the other broadcast
\* removed a failed subscriber.
C4_NoLostIngest ==
    \A t \in Tasks :
        (ovl[t] /\ Quiet(t) /\ phase[t] \in {"ok", "error"}) =>
            /\ phase[t] = "ok"
            /\ (reg0[t] \cap connected_clients) \subseteq Attempted(t)

\* C5: a subscriber receives an event only through a send attempted while
\* its handler was listening, and no event twice; nothing is sent or replayed
\* to a subscriber that has not attached, and no send is attempted to a
\* subscriber after its handler detached it.  (A broadcast attempts sends only
\* while its ingest call is in progress.)
C5_OnlyWhileAttached ==
    \A s \in Subs :
        /\ \A i, j \in 1..Len(delivered[s]) :
              i # j => delivered[s][i] # delivered[s][j]
        /\ \A i \in 1..Len(delivered[s]) :
              [sub |-> s, handler |-> "listening"] \in att[Received(s)[i]]
        /\ hstate[s] = "none" => delivered[s] = <<>>
        /\ \A t \in Tasks : \A a \in att[t] :
              a.handler \notin {"none", "done"}

\* C5 witness: subscriber 1 attached, event 1 was ingested, subscriber 1
\* detached, subscriber 2 attached, event 2 was ingested: each received
\* exactly one message, its own.
C5_Witness ==
    /\ phase[1] = "ok" /\ phase[2] = "ok"
    /\ hstate[1] = "done"
    /\ reg0[1] = {1}
    /\ reg0[2] = {2}
    /\ Received(1) = <<1>>
    /\ Received(2) = <<2>>

\* C6: a subscriber whose channel is open and whose handler runs is in the
\* registry, and a subscriber whose handler has ended is not.
C6_Lifecycle ==
    \A s \in Subs :
        /\ (hstate[s] = "listening" /\ chan[s] = "open") => s \in connected_clients
        /\ hstate[s] \in {"done", "crashed"} => s \notin connected_clients

\* C7: an ingest call whose broadcast is waiting for a send eventually
\* returns, also when a subscriber has stopped draining its channel.
C7_IngestReturns ==
    \A t \in 1..MaxIngest : (phase[t] = "sending") ~> (phase[t] # "sending")

\* C8: a subscriber that was registered when each of two events of the
\* Collector Agent reached the Hub receives them in the order the agent sent
\* them (ingest calls are numbered in the order of their arrival).
C8_PerSourceOrder ==
    \A s \in Subs : \A i, j \in 1..Len(delivered[s]) :
        (/\ i < j
         /\ source[Received(s)[i]] = "emitter"
         /\ source[Received(s)[j]] = "emitter"
         /\ s \in reg0[Received(s)[i]] \cap reg0[Received(s)[j]])
            => Received(s)[i] < Received(s)[j]

\* C9: send_event never ends the polling loop and makes exactly one POST
\* request per retained connection of the cycle, whatever the transport does:
\* no retry, nothing carried into a later cycle.
C9_BestEffort ==
    /\ em_stop # "send_event"
    /\ em_pc = "stopped" => em_stop \in {"KeyboardInterrupt", "Exception"}
    /\ em_posts <= em_conns
    /\ em_pc \in {"send", "wait"} => em_posts = em_idx - 1
    /\ em_pc = "sleep" => em_posts = em_conns

\* C9 witness: the last send of a cycle timed out and the loop is at the
\* first connection of the next cycle, with no request made in it yet.
C9_Witness ==
    /\ em_last = "timeout"
    /\ report_count >= 1
    /\ em_pc = "send"
    /\ em_idx = 1
    /\ em_posts = 0

\* C10: an ingest call whose body lacks a required Event field is rejected
\* and is not broadcast to any subscriber.
C10_MalformedRejected ==
    \A t \in Tasks :
        (phase[t] # "idle" /\ body[t] # "full") =>
            /\ phase[t] = "rejected"
            /\ att[t] = {}

\* C11: a score request lacking any of the three features ends in an
\* InvalidFeatureVector error: no row is scaled (so no default stands in for
\* the missing feature) and no score or label is returned.
C11_MissingRejected ==
    (sc_calls > 0 /\ DOMAIN sc_req # Features) =>
        /\ sc_resp.status = "InvalidFeatureVector"
        /\ sc_resp.row = <<>>
        /\ sc_resp.label = "none"

\* a step of an ingest call: receive_event begins, or a send of its broadcast
\* completes
IngestStep == phase' # phase

\* C12: every message a subscriber received is the payload of its ingest
\* call as it was received, wrapped as type "event"; and a step of an ingest
\* call neither calls the scorer nor changes the model, the scaler or the
\* payload of a call in progress.
C12_ForwardedUnscored ==
    /\ [](\A s \in Subs : \A i \in 1..Len(delivered[s]) :
            /\ delivered[s][i].type = "event"
            /\ delivered[s][i].payload.ev \in Tasks
            /\ delivered[s][i].payload.body = body[delivered[s][i].payload.ev])
    /\ [][IngestStep =>
            /\ UNCHANGED <<model, scaler, sc_calls, sc_req, sc_resp>>
            /\ \A t \in Tasks : phase[t] # "idle" => body'[t] = body[t]]_vars

\* C12 witness: the scorer was called, a body lacking Event fields and a
\* complete one were ingested, and the subscriber received both as they came.
C12_Witness ==
    /\ sc_calls > 0
    /\ body[1] = "partial" /\ body[2] = "full"
    /\ Len(delivered[1]) = 2
    /\ delivered[1][1].payload = [ev |-> 1, body |-> "partial"]
    /\ delivered[1][2].payload = [ev |-> 2, body |-> "full"]

\* C13: an exception that reaches the polling loop ends it, and once the loop
\* has ended no cycle runs and no event of the agent reaches the Hub; a send,
\* however its request ends, is followed by the next connection or the sleep.
C13_FailFast ==
    [][/\ em_stop' # em_stop => em_pc' = "stopped"
       /\ em_pc = "stopped" =>
             /\ UNCHANGED emVars
             /\ \A t \in Tasks : (phase[t] = "idle" /\ phase'[t] # "idle")
                                     => source'[t] # "emitter"
       /\ em_posts' = em_posts + 1 => em_pc' \in {"send", "sleep"}]_vars

\* C13 witness: a send timed out, the loop went on to a later cycle, and an
\* unexpected exception then ended it.
C13_Witness ==
    /\ em_pc = "stopped"
    /\ em_stop = "Exception"
    /\ em_last = "timeout"
    /\ report_count >= 1
\* the row a retained connection gave: same state, same endpoints resolved,
\* same process id
RowOf(row, conn) ==
    /\ row.status = conn.status
    /\ (row.local_addr = "N/A") = (conn.laddr = <<>>)
    /\ (row.remote_addr = "N/A") = (conn.raddr = <<>>)
    /\ \/ row.pid = conn.pid
       \/ row.pid = "N/A" /\ conn.pid \in {"None", "0"}

\* C14: every row list_active_tcp_connections returned comes from a connection
\* of the table whose state is ESTABLISHED or LISTEN and which is not an
\* ESTABLISHED connection without remote endpoint, and its local or its
\* remote endpoint string is not empty.
C14_EnumeratorFilter ==
    /\ Len(connections) <= Len(en_table)
    /\ \A i \in 1..Len(connections) :
          /\ connections[i].status \in {"ESTABLISHED", "LISTEN"}
          /\ ~(connections[i].status = "ESTABLISHED"
                  /\ connections[i].remote_addr = "N/A")
          /\ connections[i].local_addr # "" \/ connections[i].remote_addr # ""
          /\ \E j \in 1..Len(en_table) :
                /\ RowOf(connections[i], en_table[j])
                /\ en_table[j].status \in {"ESTABLISHED", "LISTEN"}
                /\ ~(en_table[j].status = "ESTABLISHED" /\ en_table[j].raddr = <<>>)

\* C14 witness: of an ESTABLISHED and a LISTEN connection, both without
\* remote endpoint, only the LISTEN one was returned.
C14_Witness ==
    /\ en_pc = "done"
    /\ Len(en_table) = 2
    /\ en_table[1].status = "ESTABLISHED" /\ en_table[1].raddr = <<>>
    /\ en_table[2].status = "LISTEN" /\ en_table[2].raddr = <<>>
    /\ Len(connections) = 1
    /\ connections[1].status = "LISTEN"
    /\ connections[1].remote_addr = "N/A"

\* C15: the executable path of every returned row is neither null nor empty;
\* it is the process map's path when the connection's process id is in the
\* map, and "Unknown/System Process" when it is not or the connection has no
\* process id.
C15_OwningProcess ==
    \A i \in 1..Len(connections) :
        /\ connections[i].process_path \notin {"None", ""}
        /\ \E j \in 1..Len(en_table) : RowOf(connections[i], en_table[j])
        /\ \A j \in 1..Len(en_table) :
              RowOf(connections[i], en_table[j]) =>
                  connections[i].process_path =
                      IF en_table[j].pid \in DOMAIN pid_map
                      THEN pid_map[en_table[j].pid]
                      ELSE "Unknown/System Process"

\* C15 witness: process 1 has no accessible executable and is in the map
\* under its name; a connection of process 1 and one without process id were
\* returned, the first with that name and the second with the sentinel.
C15_Witness ==
    /\ en_pc = "done"
    /\ "1" \in DOMAIN en_procs
    /\ en_procs["1"].exe = "None"
    /\ Len(connections) = 2
    /\ en_table[1].pid = "1" /\ connections[1].process_path = "app"
    /\ en_table[2].pid = "None"
    /\ connections[2].process_path = "Unknown/System Process"
\* C16: the handler of a subscriber that a broadcast removed after a failed
\* send ends without raising: its removal of the absent subscriber is a no-op.
C16_DetachAfterRemoval ==
    \A s \in Subs :
        (\E t \in Tasks : phase[t] = "ok" /\ s \in remove_list[t])
            => hstate[s] # "crashed"

\* C17: with no attach and no detach since a broadcast began, after it the
\* registry holds no subscriber that was not registered when it began, holds
\* every such subscriber whose sends did not fail, and holds none whose send
\* failed in it.
C17_BroadcastFrame ==
    \A t \in Tasks :
        (Quiet(t) /\ phase[t] \in {"ok", "error"}) =>
            /\ connected_clients \subseteq reg0[t]
            /\ (reg0[t] \ UNION {remove_list[u] : u \in Tasks})
                  \subseteq connected_clients
            /\ remove_list[t] \cap connected_clients = {}
====
